---- MODULE Spec2Model ----
(***************************************************************************)
(* Product catalog REST service: the HTTP handlers of service/routes.py    *)
(* over the Product entity model (service/models.py: serialize,            *)
(* deserialize, create/update/delete and the finders) and its single       *)
(* product table.                                                           *)
(***************************************************************************)
EXTENDS Integers, Sequences, FiniteSets, TLC

\* How many inserts the id generator of the table hands out in a run.
MaxProducts == 3

(***************************************************************************)
(* Values.  None / Some(x) is Python's None / a value.  JSON values are     *)
(* kept as typed tokens, so that a JSON string "Yes" is not a boolean and   *)
(* a price travels as text.                                                 *)
(***************************************************************************)
None == <<>>
Some(x) == <<x>>

JStr(s) == [type |-> "string", text |-> s]
JBool(b) == [type |-> "boolean", text |-> IF b THEN "true" ELSE "false"]
JNum(n) == [type |-> "number", text |-> ToString(n)]
JNull == [type |-> "null", text |-> "null"]

\* A request/response body: a JSON object (a mapping) or a JSON string.
JObject(m) == [kind |-> "object", members |-> m, text |-> ""]
JText(s) == [kind |-> "string", members |-> <<>>, text |-> s]

\* class Category(Enum): member name -> integer value.
Category == [UNKNOWN |-> 0, CLOTHS |-> 1, FOOD |-> 2]
CategoryNames == DOMAIN Category

\* Decimal: coefficient and number of fractional digits (12.50 = 1250, 2).
Dec(c, s) == [coeff |-> c, scale |-> s]
Pow10(n) == IF n = 0 THEN 1 ELSE IF n = 1 THEN 10 ELSE 100

\* Decimal.__eq__ / numeric column equality: by value, not by representation.
DecimalEq(a, b) == a.coeff * Pow10(b.scale) = b.coeff * Pow10(a.scale)

\* Decimal(text): the texts the requests of this model carry.
DecimalTexts == {"12.50", "12.5", "10"}
DecimalParse(t) ==
    CASE t = "12.50" -> Dec(1250, 2)
      [] t = "12.5"  -> Dec(125, 1)
      [] t = "10"    -> Dec(10, 0)

\* str(Decimal): keeps the scale, so "12.50" stays "12.50".
DecimalStr(d) ==
    CASE d = Dec(1250, 2) -> "12.50"
      [] d = Dec(125, 1)  -> "12.5"
      [] d = Dec(10, 0)   -> "10"

(***************************************************************************)
(* Entity model (service/models.py).                                        *)
(***************************************************************************)
\* Product(): every attribute unset.
NewProduct ==
    [id |-> None, name |-> None, description |-> None, price |-> None,
     available |-> None, category |-> None]

SameData(p, q) ==
    /\ p.name = q.name
    /\ p.description = q.description
    /\ p.available = q.available
    /\ p.category = q.category
    /\ (p.price = None) = (q.price = None)
    /\ p.price # None => DecimalEq(p.price[1], q.price[1])

\* serialize() rendering the category by its value instead of its name.
Serialize_category_value(p) ==
    JObject(
      [id |-> IF p.id = None THEN JNull ELSE JNum(p.id[1]),
       name |-> JStr(p.name[1]),
       description |-> IF p.description = None THEN JNull ELSE JStr(p.description[1]),
       price |-> JStr(DecimalStr(p.price[1])),
       available |-> JBool(p.available[1]),
       category |-> JNum(Category[p.category[1]])])

\* Product.serialize()
Serialize(p) ==
    JObject(
      [id |-> IF p.id = None THEN JNull ELSE JNum(p.id[1]),
       name |-> JStr(p.name[1]),
       description |-> IF p.description = None THEN JNull ELSE JStr(p.description[1]),
       price |-> JStr(DecimalStr(p.price[1])),
       available |-> JBool(p.available[1]),
       category |-> JStr(p.category[1])])

Ok(p) == [ok |-> TRUE, product |-> p]
DataValidationError(p) == [ok |-> FALSE, product |-> p]

\* deserialize() taking any truthy value for available, "Yes" included.
Deserialize_coerces_available(self, data) ==
    IF data.kind # "object" THEN DataValidationError(self)
    ELSE
    LET m == data.members
        has(k) == k \in DOMAIN m
    IN
    IF ~has("name") THEN DataValidationError(self)
    ELSE
    LET p1 == [self EXCEPT !.name = Some(m["name"].text)]
        p2 == [p1 EXCEPT !.description =
                 IF has("description") /\ m["description"].type = "string"
                 THEN Some(m["description"].text) ELSE None]
    IN
    IF ~has("price") \/ m["price"].text \notin DecimalTexts
    THEN DataValidationError(p2)
    ELSE
    LET p3 == [p2 EXCEPT !.price = Some(DecimalParse(m["price"].text))]
    IN
    IF ~has("available")
    THEN DataValidationError(p3)
    ELSE
    LET p4 == [p3 EXCEPT !.available =
                 Some(m["available"].text \notin {"false", "", "null"})]
    IN
    IF ~has("category") \/ m["category"].text \notin CategoryNames
    THEN DataValidationError(p4)
    ELSE Ok([p4 EXCEPT !.category = Some(m["category"].text)])

\* Product.deserialize(data): the attributes are written in order; a failure
\* leaves the ones already written in place.  id is never written.
Deserialize(self, data) ==
    IF data.kind # "object" THEN DataValidationError(self)
    ELSE
    LET m == data.members
        has(k) == k \in DOMAIN m
    IN
    IF ~has("name") THEN DataValidationError(self)
    ELSE
    LET p1 == [self EXCEPT !.name = Some(m["name"].text)]
        p2 == [p1 EXCEPT !.description =
                 IF has("description") /\ m["description"].type = "string"
                 THEN Some(m["description"].text) ELSE None]
    IN
    IF ~has("price") \/ m["price"].text \notin DecimalTexts
    THEN DataValidationError(p2)
    ELSE
    LET p3 == [p2 EXCEPT !.price = Some(DecimalParse(m["price"].text))]
    IN
    IF ~has("available") \/ m["available"].type # "boolean"
    THEN DataValidationError(p3)
    ELSE
    LET p4 == [p3 EXCEPT !.available = Some(m["available"].text = "true")]
    IN
    IF ~has("category") \/ m["category"].text \notin CategoryNames
    THEN DataValidationError(p4)
    ELSE Ok([p4 EXCEPT !.category = Some(m["category"].text)])

\* The product table: rows in insertion order.
Ids(table) == {table[i].id[1] : i \in 1..Len(table)}

\* Product.all()
All(table) == table

\* Product.find(by_id): a detached copy of the row, or None.
Find(table, by_id) ==
    IF by_id \in Ids(table)
    THEN Some(CHOOSE r \in {table[i] : i \in 1..Len(table)} : r.id = Some(by_id))
    ELSE None

\* Product.find_by_name(name)
FindByName(table, name) == SelectSeq(table, LAMBDA r : r.name = Some(name))

\* Product.find_by_category(category)
FindByCategory(table, category) ==
    SelectSeq(table, LAMBDA r : r.category = Some(category))

\* Product.find_by_availability(available)
FindByAvailability(table, available) ==
    SelectSeq(table, LAMBDA r : r.available = Some(available))

\* Product.find_by_price(price)
FindByPrice(table, price) ==
    SelectSeq(table, LAMBDA r : DecimalEq(r.price[1], price))


\* Product.create(): insert the row; the table hands out the id, which is
\* assigned back onto the instance.
Create(table, seq, p) ==
    LET q == [p EXCEPT !.id = Some(seq)]
    IN [table |-> Append(table, q), product |-> q]

\* Product.update(): overwrite the row matching p.id.  An unset id is a
\* caller error (DataValidationError); no row with that id is a store error.
Update(table, p) ==
    IF p.id = None
    THEN [ok |-> FALSE, error |-> "DataValidationError", table |-> table]
    ELSE IF p.id[1] \notin Ids(table)
    THEN [ok |-> FALSE, error |-> "StoreError", table |-> table]
    ELSE [ok |-> TRUE, error |-> "",
          table |-> [i \in 1..Len(table) |->
                       IF table[i].id = p.id THEN p ELSE table[i]]]

\* Product.delete(): remove the row matching p.id.
Delete(table, p) == SelectSeq(table, LAMBDA r : r.id # p.id)

(***************************************************************************)
(* HTTP facade (service/routes.py).  A handler is a function of the table   *)
(* and the request; it yields the table afterwards, the response and the    *)
(* handler's in-memory product as it stands when the handler ends.          *)
(***************************************************************************)
HTTP_200_OK == 200
HTTP_201_CREATED == 201
HTTP_204_NO_CONTENT == 204
HTTP_400_BAD_REQUEST == 400
HTTP_404_NOT_FOUND == 404
HTTP_415_UNSUPPORTED_MEDIA_TYPE == 415
HTTP_500_INTERNAL_SERVER_ERROR == 500

NoQuery == [fn |-> "", name |-> None, available |-> None, category |-> None]

Reply(table, seq, status, body, product) ==
    [table |-> table, seq |-> seq, product |-> product,
     response |-> [status |-> status, body |-> body, query |-> NoQuery]]

\* abort(status, ...): no body of products, the table as it was.
Abort(table, seq, status, product) == Reply(table, seq, status, <<>>, product)

\* check_content_type(content_type): TRUE when the request passes.
check_content_type(content_type, headers) ==
    IF headers = None THEN FALSE
    ELSE headers[1] = content_type

\* create_products without its call of product.create().
create_products_no_create(table, seq, headers, data) ==
    IF ~check_content_type("application/json", headers)
    THEN Abort(table, seq, HTTP_415_UNSUPPORTED_MEDIA_TYPE, None)
    ELSE
    LET d == Deserialize(NewProduct, data)
    IN
    IF ~d.ok
    THEN Abort(table, seq, HTTP_400_BAD_REQUEST, Some(d.product))
    ELSE Reply(table, seq, HTTP_201_CREATED,
               <<Serialize(d.product)>>, Some(d.product))

\* POST /products
create_products(table, seq, headers, data) ==
    IF ~check_content_type("application/json", headers)
    THEN Abort(table, seq, HTTP_415_UNSUPPORTED_MEDIA_TYPE, None)
    ELSE
    LET d == Deserialize(NewProduct, data)
    IN
    IF ~d.ok
    THEN Abort(table, seq, HTTP_400_BAD_REQUEST, Some(d.product))
    ELSE
    LET c == Create(table, seq, d.product)
    IN Reply(c.table, seq + 1, HTTP_201_CREATED,
             <<Serialize(c.product)>>, Some(c.product))

\* str.isdigit(), int(str), str.lower() on the query strings of this model.
IsDigit(s) == s \in {"0", "1", "2", "9"}
IntOf(s) ==
    CASE s = "0" -> 0
      [] s = "1" -> 1
      [] s = "2" -> 2
      [] s = "9" -> 9
Lower(s) ==
    CASE s = "True" -> "true"
      [] s = "YES"  -> "yes"
      [] OTHER      -> s

\* Category(value): lookup by integer value.  None: ValueError.
CategoryByValue(v) ==
    IF \E c \in CategoryNames : Category[c] = v
    THEN Some(CHOOSE c \in CategoryNames : Category[c] = v)
    ELSE None

\* Category[name]: lookup by member name.  None: KeyError.
CategoryByName(n) == IF n \in CategoryNames THEN Some(n) ELSE None

Listing(table, seq, products, query) ==
    [table |-> table, seq |-> seq, product |-> None,
     response |-> [status |-> HTTP_200_OK,
                   body |-> [i \in 1..Len(products) |-> Serialize(products[i])],
                   query |-> query]]

\* get_products testing the available parameter before the category one.
get_products_available_first(table, seq, avai, name, cate) ==
    IF avai # None
    THEN LET a == Lower(avai[1]) \in {"true", "yes", "1"}
         IN Listing(table, seq, FindByAvailability(table, a),
                    [NoQuery EXCEPT !.fn = "find_by_availability",
                                    !.available = Some(a)])
    ELSE IF cate # None
    THEN LET c == IF IsDigit(cate[1])
                  THEN CategoryByValue(IntOf(cate[1]))
                  ELSE CategoryByName(cate[1])
         IN IF c = None
            THEN Abort(table, seq, HTTP_500_INTERNAL_SERVER_ERROR, None)
            ELSE Listing(table, seq, FindByCategory(table, c[1]),
                         [NoQuery EXCEPT !.fn = "find_by_category", !.category = c])
    ELSE IF name # None
    THEN Listing(table, seq, FindByName(table, name[1]),
                 [NoQuery EXCEPT !.fn = "find_by_name", !.name = name])
    ELSE Listing(table, seq, All(table), [NoQuery EXCEPT !.fn = "all"])

\* get_products listing Product.all() where it was to filter by name.
get_products_name_unfiltered(table, seq, avai, name, cate) ==
    IF cate # None
    THEN LET c == IF IsDigit(cate[1])
                  THEN CategoryByValue(IntOf(cate[1]))
                  ELSE CategoryByName(cate[1])
         IN IF c = None
            THEN Abort(table, seq, HTTP_500_INTERNAL_SERVER_ERROR, None)
            ELSE Listing(table, seq, FindByCategory(table, c[1]),
                         [NoQuery EXCEPT !.fn = "find_by_category", !.category = c])
    ELSE IF avai # None
    THEN LET a == Lower(avai[1]) \in {"true", "yes", "1"}
         IN Listing(table, seq, FindByAvailability(table, a),
                    [NoQuery EXCEPT !.fn = "find_by_availability",
                                    !.available = Some(a)])
    ELSE IF name # None
    THEN Listing(table, seq, All(table),
                 [NoQuery EXCEPT !.fn = "find_by_name", !.name = name])
    ELSE Listing(table, seq, All(table), [NoQuery EXCEPT !.fn = "all"])

\* GET /products
get_products(table, seq, avai, name, cate) ==
    IF cate # None
    THEN LET c == IF IsDigit(cate[1])
                  THEN CategoryByValue(IntOf(cate[1]))
                  ELSE CategoryByName(cate[1])
         IN IF c = None
            THEN Abort(table, seq, HTTP_500_INTERNAL_SERVER_ERROR, None)
            ELSE Listing(table, seq, FindByCategory(table, c[1]),
                         [NoQuery EXCEPT !.fn = "find_by_category", !.category = c])
    ELSE IF avai # None
    THEN LET a == Lower(avai[1]) \in {"true", "yes", "1"}
         IN Listing(table, seq, FindByAvailability(table, a),
                    [NoQuery EXCEPT !.fn = "find_by_availability",
                                    !.available = Some(a)])
    ELSE IF name # None
    THEN Listing(table, seq, FindByName(table, name[1]),
                 [NoQuery EXCEPT !.fn = "find_by_name", !.name = name])
    ELSE Listing(table, seq, All(table), [NoQuery EXCEPT !.fn = "all"])

\* GET /products/<product_id>
get_product(table, seq, product_id) ==
    LET product == Find(table, product_id)
    IN IF product = None
       THEN Abort(table, seq, HTTP_404_NOT_FOUND, None)
       ELSE Reply(table, seq, HTTP_200_OK, <<Serialize(product[1])>>, product)

\* update_product without its call of product.update().
update_product_no_update(table, seq, product_id, headers, data) ==
    LET product == Find(table, product_id)
    IN
    IF product = None
    THEN Abort(table, seq, HTTP_404_NOT_FOUND, None)
    ELSE IF ~check_content_type("application/json", headers)
    THEN Abort(table, seq, HTTP_415_UNSUPPORTED_MEDIA_TYPE, product)
    ELSE
    LET d == Deserialize(product[1], data)
    IN
    IF ~d.ok
    THEN Abort(table, seq, HTTP_400_BAD_REQUEST, Some(d.product))
    ELSE
    LET p == [d.product EXCEPT !.id = Some(product_id)]
    IN Reply(table, seq, HTTP_200_OK, <<Serialize(p)>>, Some(p))

\* update_product giving the product a new id, as an insert would.
update_product_new_id(table, seq, product_id, headers, data) ==
    LET product == Find(table, product_id)
    IN
    IF product = None
    THEN Abort(table, seq, HTTP_404_NOT_FOUND, None)
    ELSE IF ~check_content_type("application/json", headers)
    THEN Abort(table, seq, HTTP_415_UNSUPPORTED_MEDIA_TYPE, product)
    ELSE
    LET d == Deserialize(product[1], data)
    IN
    IF ~d.ok
    THEN Abort(table, seq, HTTP_400_BAD_REQUEST, Some(d.product))
    ELSE
    LET p == [d.product EXCEPT !.id = Some(seq)]
        u == Update(table, p)
    IN
    IF ~u.ok
    THEN Abort(table, seq,
               IF u.error = "DataValidationError" THEN HTTP_400_BAD_REQUEST
               ELSE HTTP_500_INTERNAL_SERVER_ERROR,
               Some(p))
    ELSE Reply(u.table, seq, HTTP_200_OK, <<Serialize(p)>>, Some(p))

\* update_product going on to product.update() after deserialize() failed.
update_product_swallows_error(table, seq, product_id, headers, data) ==
    LET product == Find(table, product_id)
    IN
    IF product = None
    THEN Abort(table, seq, HTTP_404_NOT_FOUND, None)
    ELSE IF ~check_content_type("application/json", headers)
    THEN Abort(table, seq, HTTP_415_UNSUPPORTED_MEDIA_TYPE, product)
    ELSE
    LET d == Deserialize(product[1], data)
        p == [d.product EXCEPT !.id = Some(product_id)]
        u == Update(table, p)
    IN
    IF ~d.ok
    THEN Abort(u.table, seq, HTTP_400_BAD_REQUEST, Some(p))
    ELSE Reply(u.table, seq, HTTP_200_OK, <<Serialize(p)>>, Some(p))

\* PUT /products/<product_id>
update_product(table, seq, product_id, headers, data) ==
    LET product == Find(table, product_id)
    IN
    IF product = None
    THEN Abort(table, seq, HTTP_404_NOT_FOUND, None)
    ELSE IF ~check_content_type("application/json", headers)
    THEN Abort(table, seq, HTTP_415_UNSUPPORTED_MEDIA_TYPE, product)
    ELSE
    LET d == Deserialize(product[1], data)
    IN
    IF ~d.ok
    THEN Abort(table, seq, HTTP_400_BAD_REQUEST, Some(d.product))
    ELSE
    LET p == [d.product EXCEPT !.id = Some(product_id)]
        u == Update(table, p)
    IN
    IF ~u.ok
    THEN Abort(table, seq,
               IF u.error = "DataValidationError" THEN HTTP_400_BAD_REQUEST
               ELSE HTTP_500_INTERNAL_SERVER_ERROR,
               Some(p))
    ELSE Reply(u.table, seq, HTTP_200_OK, <<Serialize(p)>>, Some(p))

\* delete_product without its call of product.delete().
delete_product_no_delete(table, seq, product_id) ==
    LET product == Find(table, product_id)
    IN IF product = None
       THEN Abort(table, seq, HTTP_404_NOT_FOUND, None)
       ELSE Reply(table, seq, HTTP_204_NO_CONTENT, <<>>, product)

\* delete_product answering 204 for a product it did not find.
delete_product_no_404(table, seq, product_id) ==
    LET product == Find(table, product_id)
    IN IF product = None
       THEN Reply(table, seq, HTTP_204_NO_CONTENT, <<>>, None)
       ELSE Reply(Delete(table, product[1]), seq, HTTP_204_NO_CONTENT, <<>>, product)

\* DELETE /products/<product_id>
delete_product(table, seq, product_id) ==
    LET product == Find(table, product_id)
    IN IF product = None
       THEN Abort(table, seq, HTTP_404_NOT_FOUND, None)
       ELSE Reply(Delete(table, product[1]), seq, HTTP_204_NO_CONTENT, <<>>, product)

(***************************************************************************)
(* Requests.                                                                *)
(***************************************************************************)
Fedora ==
    [name |-> JStr("Fedora"), description |-> JStr("A red hat"),
     price |-> JStr("12.50"), available |-> JBool(TRUE), category |-> JStr("CLOTHS")]
Cap ==
    [name |-> JStr("Fedora"), price |-> JStr("12.5"),
     available |-> JBool(FALSE), category |-> JStr("FOOD")]
Apple ==
    [name |-> JStr("Apple"), description |-> JStr("A red hat"),
     price |-> JStr("10"), available |-> JBool(TRUE), category |-> JStr("FOOD")]

Without(m, k) == [x \in DOMAIN m \ {k} |-> m[x]]

ValidBodies == {JObject(Fedora), JObject(Cap), JObject(Apple)}
DefectiveBodies ==
    { JText("{'name': 'Fedora'}"),
      JObject(Without(Fedora, "price")),
      JObject([Fedora EXCEPT !.available = JStr("Yes")]),
      JObject([Apple EXCEPT !.category = JStr("food")]),
      JObject([Apple EXCEPT !.price = JStr("abc")]) }
Bodies == ValidBodies \cup DefectiveBodies

ContentTypes == {None, Some("application/json"), Some("text/html")}
PathIds == 1..(MaxProducts + 1)
AvailableArgs == {None, Some("True"), Some("no"), Some("1")}
NameArgs == {None, Some("Fedora"), Some("fedora")}
CategoryArgs == {None, Some("1"), Some("FOOD"), Some("9"), Some("food")}

NoArgs == [available |-> None, name |-> None, category |-> None]
Request(method, product_id, headers, data, args) ==
    [method |-> method, product_id |-> product_id, headers |-> headers,
     data |-> data, args |-> args]

(***************************************************************************)
(* State.                                                                   *)
(***************************************************************************)
VARIABLES
    db,         \* the product table
    next_id,    \* the id the table hands out next
    request,    \* the last request handled
    response,   \* its response
    product,    \* the handler's in-memory product when it ended
    db_before,  \* the table as the last request found it
    test        \* the locals of test_serialize_deserialize

vars == <<db, next_id, request, response, product, db_before, test>>

NoTest ==
    [step |-> "", product |-> None, tmp_dict |-> None, data |-> None,
     product2 |-> None, raised |-> FALSE]

Init ==
    /\ db = <<>>
    /\ next_id = 1
    /\ request = Request("", None, None, None, NoArgs)
    /\ response = [status |-> 0, body |-> <<>>, query |-> NoQuery]
    /\ product = None
    /\ db_before = <<>>
    /\ test = NoTest

Handle(req, out) ==
    /\ db_before' = db
    /\ request' = req
    /\ db' = out.table
    /\ next_id' = out.seq
    /\ response' = out.response
    /\ product' = out.product
    /\ UNCHANGED test

POST_products(headers, data) ==
    /\ next_id <= MaxProducts
    /\ Handle(Request("POST", None, headers, Some(data), NoArgs),
              create_products(db, next_id, headers, data))

GET_products(avai, name, cate) ==
    Handle(Request("GET", None, None, None,
                   [available |-> avai, name |-> name, category |-> cate]),
           get_products(db, next_id, avai, name, cate))

GET_product(product_id) ==
    Handle(Request("GET", Some(product_id), None, None, NoArgs),
           get_product(db, next_id, product_id))

PUT_product(product_id, headers, data) ==
    Handle(Request("PUT", Some(product_id), headers, Some(data), NoArgs),
           update_product(db, next_id, product_id, headers, data))

DELETE_product(product_id) ==
    Handle(Request("DELETE", Some(product_id), None, None, NoArgs),
           delete_product(db, next_id, product_id))

Next ==
    \/ \E h \in ContentTypes, d \in Bodies : POST_products(h, d)
    \/ \E a \in AvailableArgs, n \in NameArgs, c \in CategoryArgs :
          GET_products(a, n, c)
    \/ \E i \in PathIds : GET_product(i)
    \/ \E i \in PathIds, h \in ContentTypes, d \in Bodies : PUT_product(i, h, d)
    \/ \E i \in PathIds : DELETE_product(i)

Spec == Init /\ [][Next]_vars

(***************************************************************************)
(* tests/test_models.py, test_serialize_deserialize: a product built in     *)
(* memory is serialized, the mapping is deserialized into a new Product(),  *)
(* and then defective copies of the mapping are deserialized.               *)
(***************************************************************************)
Names == {"Fedora", "Apple"}
Descriptions == {None, Some("A red hat")}
Prices == {DecimalParse(t) : t \in DecimalTexts}
TestIds == {None, Some(1)}

\* Product(name=..., description=..., price=..., available=..., category=...)
Products ==
    {[id |-> i, name |-> Some(n), description |-> d, price |-> Some(pr),
      available |-> Some(a), category |-> Some(c)] :
        i \in TestIds, n \in Names, d \in Descriptions, pr \in Prices,
        a \in BOOLEAN, c \in CategoryNames}

Defects == {"available", "price", "str"}

\* tmp_dict_defective
Defective(tmp_dict, defect) ==
    CASE defect = "available" ->
           JObject([tmp_dict.members EXCEPT !.available = JStr("Yes")])
      [] defect = "price" -> JObject(Without(tmp_dict.members, "price"))
      [] defect = "str" -> JText("str(tmp_dict)")

InitTest ==
    /\ db = <<>>
    /\ next_id = 1
    /\ request = Request("", None, None, None, NoArgs)
    /\ response = [status |-> 0, body |-> <<>>, query |-> NoQuery]
    /\ product = None
    /\ db_before = <<>>
    /\ \E p \in Products : test = [NoTest EXCEPT !.step = "product", !.product = Some(p)]

\* tmp_dict = product.serialize()
test_serialize ==
    /\ test.step = "product"
    /\ test' = [test EXCEPT !.step = "serialize",
                            !.tmp_dict = Some(Serialize(test.product[1]))]
    /\ UNCHANGED <<db, next_id, request, response, product, db_before>>

\* Product().deserialize(data)
test_deserialize(step, data) ==
    LET d == Deserialize(NewProduct, data)
    IN /\ test' = [test EXCEPT !.step = step, !.data = Some(data),
                               !.product2 = Some(d.product), !.raised = ~d.ok]
       /\ UNCHANGED <<db, next_id, request, response, product, db_before>>

\* product2 = Product().deserialize(tmp_dict)
test_roundtrip ==
    /\ test.step = "serialize"
    /\ test_deserialize("deserialize", test.tmp_dict[1])

\* with self.assertRaises(DataValidationError): Product().deserialize(tmp_dict_defective)
test_defective(defect) ==
    /\ test.step \in {"deserialize", "defective"}
    /\ test_deserialize("defective", Defective(test.tmp_dict[1], defect))

NextTest ==
    \/ test_serialize
    \/ test_roundtrip
    \/ \E x \in Defects : test_defective(x)

TestSpec == InitTest /\ [][NextTest]_vars


(***************************************************************************)
(* Properties.                                                              *)
(***************************************************************************)
Rows(table) == {table[i] : i \in 1..Len(table)}
IdSeq(table) == [i \in 1..Len(table) |-> table[i].id]
Is(method, status) == request.method = method /\ response.status = status
path_id == request.product_id[1]

\* C1: a successful POST /products (deserialize into a new Product, then
\* create()) leaves the instance with a non-null id; find(id) on the table
\* returns a product with the instance's name, description, price, available
\* and category; all() has exactly one more row than before.
C1_CreateAssignsIdAndIsFound ==
    Is("POST", HTTP_201_CREATED) =>
        /\ product # None
        /\ product[1].id # None
        /\ LET found == Find(db, product[1].id[1])
           IN /\ found # None
              /\ found[1].id = product[1].id
              /\ SameData(found[1], product[1])
        /\ SameData(product[1], Deserialize(NewProduct, request.data[1]).product)
        /\ Len(All(db)) = Len(All(db_before)) + 1

C1_Witness ==
    /\ Is("POST", HTTP_201_CREATED)
    /\ Len(db_before) >= 1
    /\ product[1].id = Some(next_id - 1)

\* C2: after a successful DELETE of a persisted product it is not in all(),
\* find() on its id is None, and every other row is as it was.
C2_DeleteRemovesOnlyThatRow ==
    Is("DELETE", HTTP_204_NO_CONTENT) =>
        /\ path_id \in Ids(db_before)
        /\ \A i \in 1..Len(All(db)) : All(db)[i].id # Some(path_id)
        /\ Find(db, path_id) = None
        /\ Len(db) = Len(db_before) - 1
        /\ \A r \in Rows(db_before) :
              r.id # Some(path_id) => Find(db, r.id[1]) = Some(r)
        /\ Rows(db) \subseteq Rows(db_before)

C2_Witness ==
    /\ Is("DELETE", HTTP_204_NO_CONTENT)
    /\ Len(db_before) >= 2
    /\ db_before[1].id = Some(path_id)

\* C3: DELETE /products/{id} for an id with no row answers 404 and the table
\* is the same before and after.
C3_DeleteMissingIs404 ==
    (request.method = "DELETE" /\ path_id \notin Ids(db_before)) =>
        /\ response.status = HTTP_404_NOT_FOUND
        /\ db = db_before

C3_Witness ==
    /\ Is("DELETE", HTTP_404_NOT_FOUND)
    /\ Len(db_before) >= 1
    /\ path_id < next_id

\* C4: after a successful PUT (the loaded product's fields, price among them,
\* are overwritten in memory and update() is called) find(id) returns the new
\* price, not the old one; the row keeps its id and place; no other row
\* changes.
C4_UpdateStoresNewPrice ==
    Is("PUT", HTTP_200_OK) =>
        LET new == DecimalParse(request.data[1].members["price"].text)
            old == Find(db_before, path_id)[1].price[1]
            now == Find(db, path_id)
        IN /\ now # None
           /\ now[1].price = Some(new)
           /\ ~DecimalEq(new, old) => ~DecimalEq(now[1].price[1], old)
           /\ IdSeq(db) = IdSeq(db_before)
           /\ \A i \in 1..Len(db_before) :
                 db_before[i].id # Some(path_id) => db[i] = db_before[i]

C4_Witness ==
    /\ Is("PUT", HTTP_200_OK)
    /\ Len(db_before) >= 2
    /\ ~DecimalEq(Find(db, path_id)[1].price[1],
                  Find(db_before, path_id)[1].price[1])

IsListing == request.method = "GET" /\ request.product_id = None
Listed(products) == [i \in 1..Len(products) |-> Serialize(products[i])]
Count(table, Match(_)) == Cardinality({i \in 1..Len(table) : Match(table[i])})

\* The category parameter names member c: by its value in digits, or by its
\* exact name.
Names_category(arg, c) == arg = c \/ arg = ToString(Category[c])

C7_FindersAreExact ==
    /\ (IsListing /\ response.status = HTTP_200_OK) =>
          LET q == response.query
              body == response.body
          IN /\ \A i \in 1..Len(body) : \E r \in Rows(db) : body[i] = Serialize(r)
             /\ q.fn = "find_by_name" =>
                   /\ \A i \in 1..Len(body) :
                         body[i].members["name"] = JStr(q.name[1])
                   /\ Len(body) = Count(All(db), LAMBDA r : r.name = q.name)
             /\ q.fn = "find_by_category" =>
                   /\ \A i \in 1..Len(body) :
                         body[i].members["category"] = JStr(q.category[1])
                   /\ Len(body) = Count(All(db), LAMBDA r : r.category = q.category)
             /\ q.fn = "find_by_availability" =>
                   /\ \A i \in 1..Len(body) :
                         body[i].members["available"] = JBool(q.available[1])
                   /\ Len(body) = Count(All(db), LAMBDA r : r.available = q.available)
    /\ \A price \in Prices :
          LET found == FindByPrice(db, price)
          IN /\ \A i \in 1..Len(found) :
                   found[i] \in Rows(db) /\ DecimalEq(found[i].price[1], price)
             /\ Len(found) =
                   Count(All(db), LAMBDA r : DecimalEq(r.price[1], price))

C7_Witness ==
    /\ IsListing
    /\ response.query.fn = "find_by_name"
    /\ Len(response.body) >= 1
    /\ Len(response.body) < Len(db)
    /\ \E price \in Prices :
          /\ Len(FindByPrice(db, price)) = 2
          /\ \E r \in Rows(db) : r.price # Some(price) /\ DecimalEq(r.price[1], price)

\* C8: deserialize() raises DataValidationError for every input that is not
\* a mapping, for every mapping without the price key, and for every mapping
\* whose available value is not a boolean; no Product comes out of it.
C8_DeserializeRejects ==
    test.step \in {"deserialize", "defective"} =>
        LET data == test.data[1]
        IN (\/ data.kind # "object"
            \/ "price" \notin DOMAIN data.members
            \/ /\ "available" \in DOMAIN data.members
               /\ data.members["available"].type # "boolean")
           => test.raised

C8_Witness ==
    /\ test.step = "defective"
    /\ test.data[1].kind = "object"
    /\ "price" \in DOMAIN test.data[1].members
    /\ test.data[1].members["available"] = JStr("Yes")
    /\ test.raised

\* C9: round trip: deserialize(serialize(P)) into a new Product succeeds and
\* equals P in name, description, price, available and category; deserialize
\* does not set the id, so the id is P's only when P's id is unset (and the
\* mapping carries the id key either way).
C9_RoundTrip ==
    test.step = "deserialize" =>
        LET P == test.product[1]
            product2 == test.product2[1]
        IN /\ ~test.raised
           /\ test.data = test.tmp_dict
           /\ SameData(product2, P)
           /\ product2.price = P.price
           /\ product2.id = None
           /\ (product2.id = P.id) <=> (P.id = None)
           /\ product2.id = P.id => "id" \in DOMAIN test.tmp_dict[1].members

C9_Witness ==
    /\ test.step = "deserialize"
    /\ test.product[1].id # None
    /\ test.product[1].description = None
    /\ test.product[1].price = Some(Dec(1250, 2))
    /\ test.product2[1].category = Some("FOOD")

\* C10: a PUT /products/{id} changes the table only when it reaches update():
\* ending in 404 (no such row), 415 (Content-Type missing or not
\* application/json) or 400 (deserialize failed) it leaves every row as it
\* was, whatever deserialize wrote to the in-memory product before failing.
C10_FailedPutLeavesTable ==
    request.method = "PUT" =>
        /\ response.status \in {HTTP_200_OK, HTTP_400_BAD_REQUEST,
                                HTTP_404_NOT_FOUND, HTTP_415_UNSUPPORTED_MEDIA_TYPE}
        /\ response.status # HTTP_200_OK => db = db_before
        /\ path_id \notin Ids(db_before) => response.status = HTTP_404_NOT_FOUND
        /\ (path_id \in Ids(db_before)
              /\ request.headers # Some("application/json")) =>
                 response.status = HTTP_415_UNSUPPORTED_MEDIA_TYPE
        /\ (path_id \in Ids(db_before)
              /\ request.headers = Some("application/json")
              /\ ~Deserialize(NewProduct, request.data[1]).ok) =>
                 response.status = HTTP_400_BAD_REQUEST

C10_Witness ==
    /\ Is("PUT", HTTP_400_BAD_REQUEST)
    /\ product # None
    /\ product[1].name # Find(db_before, path_id)[1].name
    /\ product[1].price # Find(db_before, path_id)[1].price
    /\ Len(db) >= 2
    /\ db = db_before

====
